---------------------------- MODULE Spec2Model ----------------------------
(***************************************************************************)
(* Position-tracking core of the front end: the scanner of                 *)
(* source_map/analyze.rs (generic algorithm and the SSE2 chunked path) and *)
(* the SourceFile record of source_map/file.rs with its lookups.           *)
(*                                                                         *)
(* A text is a sequence of Unicode scalar values (`text`); the program     *)
(* sees its UTF-8 bytes (`src`).  Positions are 0-based as in the code;    *)
(* TLA+ sequences are 1-based, so byte p of the code is src[p + 1].        *)
(*                                                                         *)
(* Three specifications share the construction steps (New, DispatchGeneric,*)
(* Sse2Chunk, Sse2Tail, Finish):                                           *)
(*   SpecScan   - construction over texts laid around 16-byte boundaries   *)
(*   Spec       - construction, then lookups by relative position          *)
(*   SpecPlaced - construction, placement at a start position, and the     *)
(*                absolute/relative conversions in 32-bit arithmetic       *)
(***************************************************************************)
EXTENDS Integers, Sequences, FiniteSets, TLC

VARIABLES
    text,                 \* the scalar values of the String handed to SourceFile::new
    src,                  \* its UTF-8 bytes (src.as_bytes())
    padding,              \* how many more bytes "a" follow text in the String
    pc,                   \* position of the construction call
    impl,                 \* branch taken by analyze_source_file_dispatch
    chunk_index,          \* loop variable of analyze_source_file_sse2
    intra_chunk_offset,   \* carried skip count of analyze_source_file_sse2
    lines,                \* Vec<RelativeBytePos> under construction
    multi_byte_chars,     \* Vec<MultiByteChar> under construction
    non_narrow_chars,     \* Vec<NonNarrowChar> under construction
    examined,             \* history: the offsets the scanner has read a character at
    file,                 \* the SourceFile record, once constructed
    call                  \* the last lookup made on the record and what it returned

vars == <<text, src, padding, pc, impl, chunk_index, intra_chunk_offset, lines,
          multi_byte_chars, non_narrow_chars, examined, file, call>>

scanvars == <<impl, chunk_index, intra_chunk_offset, lines,
              multi_byte_chars, non_narrow_chars,
              examined>>

-----------------------------------------------------------------------------
(* Program constants *)

CHUNK_SIZE == 16

\* u32 values are kept as two 16-bit limbs (the model checker's integers are
\* 32-bit signed, so 2^32 is built from 2^16)
LIMB == 65536

NoFile == [present |-> FALSE]

NoCall == [op |-> "none"]

\* Option: None and Some(v)
None == <<>>

Some(v) == <<v>>

-----------------------------------------------------------------------------
(* Bounds of the inputs *)

\* scalar values in the varying part of a text
MaxCore == 2

\* the varying part may start up to MaxBack bytes before a chunk boundary
MaxBack == 3

\* full chunks of padding that may precede the varying part
MaxPreChunks == 1

\* full chunks of padding that may follow the varying part
MaxPostChunks == 1

\* scalar values of the short texts the lookups are exercised on
MaxLookupChars == 3

-----------------------------------------------------------------------------
(* Unsigned 32-bit positions (BytePos, RelativeBytePos) *)

U32(n) == [hi |-> n \div LIMB, lo |-> n % LIMB]

\* a usize: two 16-bit limbs for bits 0..31 and one limb for the bits above
USIZE(n) == [over |-> 0, hi |-> n \div LIMB, lo |-> n % LIMB]

\* usize addition without overflow
usize_add(a, b) ==
    LET lo == a.lo + b.lo
        hi == a.hi + b.hi + (lo \div LIMB)
    IN  [over |-> a.over + b.over + (hi \div LIMB), hi |-> hi % LIMB, lo |-> lo % LIMB]

\* mutant of u32_try_from: the length is truncated to 32 bits, as a cast does
u32_try_from_truncating(n) == [ok |-> TRUE, v |-> [hi |-> n.hi, lo |-> n.lo]]

\* u32::try_from(usize)
u32_try_from(n) ==
    IF n.over = 0 THEN [ok |-> TRUE, v |-> [hi |-> n.hi, lo |-> n.lo]]
    ELSE [ok |-> FALSE, v |-> U32(0)]

\* u32 addition: the wrapped sum, and whether it left the 32-bit range
u32_add(a, b) ==
    LET lo == a.lo + b.lo
        hi == a.hi + b.hi + (lo \div LIMB)
    IN  [v |-> [hi |-> hi % LIMB, lo |-> lo % LIMB], overflow |-> hi >= LIMB]

\* u32 subtraction: the wrapped difference, and whether it left the 32-bit range
u32_sub(a, b) ==
    LET borrow == IF a.lo < b.lo THEN 1 ELSE 0
        lo == a.lo - b.lo + borrow * LIMB
        hi == a.hi - b.hi - borrow
    IN  [v |-> [hi |-> (hi + LIMB) % LIMB, lo |-> lo], overflow |-> hi < 0]

u32_le(a, b) == a.hi < b.hi \/ (a.hi = b.hi /\ a.lo <= b.lo)

-----------------------------------------------------------------------------
(* UTF-8: how a String stores scalar values, and how str::chars reads them *)

len_utf8(c) ==
    IF c < 128 THEN 1 ELSE IF c < 2048 THEN 2 ELSE IF c < 65536 THEN 3 ELSE 4

encode_utf8(c) ==
    IF c < 128 THEN <<c>>
    ELSE IF c < 2048 THEN <<192 + (c \div 64), 128 + (c % 64)>>
    ELSE IF c < 65536 THEN
        <<224 + (c \div 4096), 128 + ((c \div 64) % 64), 128 + (c % 64)>>
    ELSE <<240 + (c \div 262144), 128 + ((c \div 4096) % 64),
           128 + ((c \div 64) % 64), 128 + (c % 64)>>

RECURSIVE as_bytes(_)
as_bytes(t) ==
    IF t = <<>> THEN <<>> ELSE encode_utf8(Head(t)) \o as_bytes(Tail(t))

\* str::is_char_boundary: index 0, the length, or a byte that is no continuation byte
is_char_boundary(s, i) ==
    \/ i = 0
    \/ i = Len(s)
    \/ i < Len(s) /\ ~(s[i + 1] >= 128 /\ s[i + 1] < 192)

\* s[i..].chars().next().unwrap(): the scalar value whose encoding starts at byte i
next_char(s, i) ==
    LET b0 == s[i + 1]
        cont(k) == s[i + 1 + k] - 128
    IN  IF b0 < 128 THEN b0
        ELSE IF b0 < 224 THEN (b0 - 192) * 64 + cont(1)
        ELSE IF b0 < 240 THEN (b0 - 224) * 4096 + cont(1) * 64 + cont(2)
        ELSE (b0 - 240) * 262144 + cont(1) * 4096 + cont(2) * 64 + cont(3)

\* UnicodeWidthChar::width on the scalar values of the alphabet: None (-1) for
\* the control characters U+0001..U+001F and U+007F..U+009F, 0 for NUL and
\* ZERO WIDTH SPACE, 2 for wide characters, else 1
UnicodeWidthChar_width(c) ==
    IF c = 0 THEN 0
    ELSE IF c < 32 \/ (c >= 127 /\ c < 160) THEN -1
    ELSE IF c = 8203 THEN 0
    ELSE IF c = 20013 \/ c = 128512 THEN 2
    ELSE 1

-----------------------------------------------------------------------------
(* Inputs *)

\* 'a', '\n', '\t', BEL, DEL, U+0085 (2 bytes, a control character), U+03B2
\* (2 bytes, narrow), U+200B (3 bytes, zero width), U+1F600 (4 bytes, wide)
Alphabet == {97, 10, 9, 7, 127, 133, 946, 8203, 128512}

Pad(n) == [i \in 1..n |-> 97]

SeqsUpTo(S, n) == UNION {[1..k -> S] : k \in 0..n}

PreLens ==
    {0} \cup {k * CHUNK_SIZE - b : k \in 1..MaxPreChunks, b \in 0..MaxBack}

PostLens == {k * CHUNK_SIZE : k \in 0..MaxPostChunks}

\* padding, a short varying part placed around a chunk boundary, padding
ScanTexts ==
    {Pad(a) \o core \o Pad(b) :
        a \in PreLens, core \in SeqsUpTo(Alphabet, MaxCore), b \in PostLens}

\* texts of the scanner's own tests (analyze.rs, mod tests)
Digits == <<48, 49, 50, 51, 52, 53, 54, 55, 56, 57>>

Hex == <<97, 98, 99, 100, 101, 102>>

Fixtures ==
    { <<>>,
      <<97, 10, 99>>,
      <<48, 49, 50, 51, 52, 53, 54, 55, 56, 10>> \o Hex
          \o <<48, 49, 50, 51, 52, 53, 54, 55, 56, 10, 97>>,
      <<48, 49, 50, 51, 52, 946>> \o <<55, 56, 57, 10>> \o <<98, 99, 100, 101, 102>>
          \o Digits \o Hex,
      Digits \o <<97, 98, 99, 100, 101, 916>> \o <<49, 50, 51, 52, 53, 54, 55, 56, 57>>
          \o Hex \o <<48, 49, 50, 51, 52>>,
      Digits \o <<97, 98, 99, 100, 101, 916, 46, 46, 46, 46>>,
      <<48, 49, 9, 51, 52, 53, 10, 55, 56, 57, 97, 98, 99, 916, 102>>
          \o <<48, 49, 50, 51, 52, 53, 54, 55, 7, 57, 10, 98, 99, 916, 102>> }

LookupTexts == SeqsUpTo(Alphabet, MaxLookupChars) \cup Fixtures

-----------------------------------------------------------------------------
(* analyze.rs: the generic algorithm *)

Out(l, m, n) ==
    [lines |-> l, multi_byte_chars |-> m, non_narrow_chars |-> n,
     ret |-> 0, panicked |-> FALSE, examined |-> <<>>]

\* NonNarrowChar::new
NonNarrowChar_new(pos, width) ==
    IF width = 0 THEN [kind |-> "ZeroWidth", pos |-> pos]
    ELSE IF width = 2 THEN [kind |-> "Wide", pos |-> pos]
    ELSE IF width = 4 THEN [kind |-> "Tab", pos |-> pos]
    ELSE [kind |-> "panic", pos |-> pos]

\* NonNarrowChar::width
NonNarrowChar_width(x) ==
    IF x.kind = "ZeroWidth" THEN 0 ELSE IF x.kind = "Wide" THEN 2 ELSE 4

\* mutant of control_byte: a tab is treated like any other control byte
control_byte_tab_as_control(byte, pos, out) ==
    IF byte = 10 THEN [out EXCEPT !.lines = Append(@, pos + 1)]
    ELSE [out EXCEPT !.non_narrow_chars =
                         Append(@, [kind |-> "ZeroWidth", pos |-> pos])]

\* the body of the while loop for a byte < 32
control_byte(byte, pos, out) ==
    IF byte = 10 THEN [out EXCEPT !.lines = Append(@, pos + 1)]
    ELSE IF byte = 9 THEN
        [out EXCEPT !.non_narrow_chars = Append(@, [kind |-> "Tab", pos |-> pos])]
    ELSE [out EXCEPT !.non_narrow_chars =
                         Append(@, [kind |-> "ZeroWidth", pos |-> pos])]

\* the body of the while loop for a byte >= 127, after decoding c
decoded_char(c, pos, out) ==
    LET char_len == len_utf8(c)
        w == UnicodeWidthChar_width(c)
        char_width == IF w = -1 THEN 0 ELSE w
        o1 == IF char_len > 1
              THEN [out EXCEPT
                      !.multi_byte_chars = Append(@, [pos |-> pos, bytes |-> char_len]),
                      !.panicked = @ \/ ~(char_len >= 2 /\ char_len <= 4)]
              ELSE out
    IN  IF char_width # 1
        THEN [o1 EXCEPT
                !.non_narrow_chars = Append(@, NonNarrowChar_new(pos, char_width)),
                !.panicked = @ \/ char_width \notin {0, 2, 4}]
        ELSE o1

RECURSIVE generic_loop(_, _, _, _, _)
generic_loop(s, scan_len, output_offset, i, out) ==
    IF ~(i < scan_len) THEN [out EXCEPT !.ret = i - scan_len]
    ELSE
        LET byte == s[i + 1]
            pos == i + output_offset
            read == [out EXCEPT !.examined = Append(@, pos)]
        IN  IF byte < 32 THEN
                generic_loop(s, scan_len, output_offset, i + 1,
                             control_byte(byte, pos, read))
            ELSE IF byte >= 127 THEN
                LET c == next_char(s, i)
                IN  generic_loop(s, scan_len, output_offset, i + len_utf8(c),
                                 decoded_char(c, pos, read))
            ELSE generic_loop(s, scan_len, output_offset, i + 1, read)

analyze_source_file_generic(s, scan_len, output_offset, l, m, n) ==
    IF ~(Len(s) >= scan_len) THEN [Out(l, m, n) EXCEPT !.panicked = TRUE]
    ELSE generic_loop(s, scan_len, output_offset, 0, Out(l, m, n))

\* &src[from..]: panics unless `from` is a character boundary within the text
slice_from(s, from) ==
    IF from <= Len(s) /\ is_char_boundary(s, from)
    THEN [ok |-> TRUE, s |-> SubSeq(s, from + 1, Len(s))]
    ELSE [ok |-> FALSE, s |-> <<>>]

-----------------------------------------------------------------------------
(* analyze.rs: the SSE2 path *)

chunk_count(s) == Len(s) \div CHUNK_SIZE

\* _mm_loadu_si128(ptr.add(chunk_index)): lane k of the chunk
lane(s, ci, k) == s[ci * CHUNK_SIZE + k + 1]

\* the lanes are compared as signed 8-bit integers
as_i8(b) == IF b >= 128 THEN b - 256 ELSE b

Lanes == 0..(CHUNK_SIZE - 1)

multibyte_mask(s, ci) == {k \in Lanes : as_i8(lane(s, ci, k)) < 0}

control_char_mask(s, ci) ==
    {k \in Lanes : as_i8(lane(s, ci, k)) < 32} \cup {k \in Lanes : lane(s, ci, k) = 127}

newlines_mask(s, ci) == {k \in Lanes : lane(s, ci, k) = 10}

\* which of the three ways the loop body treats chunk ci
chunk_kind(s, ci) ==
    IF multibyte_mask(s, ci) = {} THEN
        IF control_char_mask(s, ci) # {} THEN
            IF control_char_mask(s, ci) = newlines_mask(s, ci)
            THEN "newlines" ELSE "slow"
        ELSE "skip"
    ELSE "slow"

\* mutant of newlines_output_offset: the position of the newline itself
newlines_output_offset_at_newline(ci) == ci * CHUNK_SIZE

\* output_offset of the batch append
newlines_output_offset(ci) == ci * CHUNK_SIZE + 1

\* the trailing_zeros loop: every set bit of the mask, lowest first
RECURSIVE push_newlines(_, _, _)
push_newlines(mask, output_offset, l) ==
    IF mask = {} THEN l
    ELSE LET index == CHOOSE k \in mask : \A j \in mask : k <= j
         IN  push_newlines(mask \ {index}, output_offset,
                           Append(l, index + output_offset))

\* mutant of scan_start: the carried skip count is forgotten
scan_start_no_carry(ci, ico) == ci * CHUNK_SIZE

\* where the slow path starts decoding chunk ci
scan_start(ci, ico) == ci * CHUNK_SIZE + ico

\* the offsets of the bytes of chunk ci, all of them read by the chunk load
chunk_offsets(ci) == [k \in 1..CHUNK_SIZE |-> ci * CHUNK_SIZE + (k - 1)]

\* mutant of tail_start: the carried skip count is not added
tail_start_no_carry(s, ico) == chunk_count(s) * CHUNK_SIZE

\* where the tail starts
tail_start(s, ico) == chunk_count(s) * CHUNK_SIZE + ico

-----------------------------------------------------------------------------
(* Construction: SourceFile::new and analyze_source_file, step by step *)

\* mutant of initial_lines: the table is not seeded with line start 0
initial_lines_unseeded == <<>>

\* let mut lines = vec![RelativeBytePos::from_u32(0)]
initial_lines == <<0>>

InitWith(T) ==
    /\ text \in T
    /\ src = as_bytes(text)
    /\ padding = USIZE(0)
    /\ pc = "new"
    /\ impl = "none"
    /\ chunk_index = 0
    /\ intra_chunk_offset = 0
    /\ lines = <<>>
    /\ multi_byte_chars = <<>>
    /\ non_narrow_chars = <<>>
    /\ examined = <<>>
    /\ file = NoFile
    /\ call = NoCall

\* let source_len = src.len(): the bytes of text and the bytes that follow
source_len == usize_add(USIZE(Len(src)), padding)

\* SourceFile::new up to the call of the scanner, analyze_source_file up to
\* the dispatch, and the dispatch's feature test
New ==
    /\ pc = "new"
    /\ IF ~u32_try_from(source_len).ok
       THEN /\ pc' = "overflow"
            /\ UNCHANGED scanvars
       ELSE \E detected \in BOOLEAN :
            /\ impl' = IF detected THEN "sse2" ELSE "generic"
            /\ pc' = "dispatch"
            /\ lines' = initial_lines
            /\ multi_byte_chars' = <<>>
            /\ non_narrow_chars' = <<>>
            /\ chunk_index' = 0
            /\ intra_chunk_offset' = 0
            /\ examined' = <<>>
    /\ UNCHANGED <<text, src, padding, file, call>>

\* the whole text in one call of the generic algorithm
DispatchGeneric ==
    /\ pc = "dispatch"
    /\ impl = "generic"
    /\ LET r == analyze_source_file_generic(src, Len(src), 0, lines,
                                            multi_byte_chars, non_narrow_chars)
       IN  /\ lines' = r.lines
           /\ multi_byte_chars' = r.multi_byte_chars
           /\ non_narrow_chars' = r.non_narrow_chars
           /\ examined' = examined \o r.examined
           /\ pc' = IF r.panicked THEN "panic" ELSE "post"
    /\ UNCHANGED <<text, src, padding, impl, chunk_index, intra_chunk_offset, file, call>>

\* one iteration of `for chunk_index in 0..chunk_count`
Sse2Chunk ==
    /\ pc = "dispatch"
    /\ impl = "sse2"
    /\ chunk_index < chunk_count(src)
    /\ LET kind == chunk_kind(src, chunk_index)
       IN  IF multibyte_mask(src, chunk_index) = {} /\ intra_chunk_offset # 0
           THEN /\ pc' = "panic"
                /\ UNCHANGED <<chunk_index, intra_chunk_offset, lines,
                               multi_byte_chars, non_narrow_chars, examined>>
           ELSE IF kind = "skip"
           THEN /\ chunk_index' = chunk_index + 1
                /\ examined' = examined \o chunk_offsets(chunk_index)
                /\ UNCHANGED <<pc, intra_chunk_offset, lines,
                               multi_byte_chars, non_narrow_chars>>
           ELSE IF kind = "newlines"
           THEN /\ lines' = push_newlines(newlines_mask(src, chunk_index),
                                          newlines_output_offset(chunk_index), lines)
                /\ chunk_index' = chunk_index + 1
                /\ examined' = examined \o chunk_offsets(chunk_index)
                /\ UNCHANGED <<pc, intra_chunk_offset, multi_byte_chars,
                               non_narrow_chars>>
           ELSE LET start == scan_start(chunk_index, intra_chunk_offset)
                    sl == slice_from(src, start)
                    r == analyze_source_file_generic(
                             sl.s, CHUNK_SIZE - intra_chunk_offset, start,
                             lines, multi_byte_chars, non_narrow_chars)
                IN  IF ~sl.ok \/ r.panicked
                    THEN /\ pc' = "panic"
                         /\ UNCHANGED <<chunk_index, intra_chunk_offset, lines,
                                        multi_byte_chars, non_narrow_chars, examined>>
                    ELSE /\ intra_chunk_offset' = r.ret
                         /\ examined' = examined \o r.examined
                         /\ lines' = r.lines
                         /\ multi_byte_chars' = r.multi_byte_chars
                         /\ non_narrow_chars' = r.non_narrow_chars
                         /\ chunk_index' = chunk_index + 1
                         /\ pc' = pc
    /\ UNCHANGED <<text, src, padding, impl, file, call>>

\* after the loop: the tail shorter than one chunk
Sse2Tail ==
    /\ pc = "dispatch"
    /\ impl = "sse2"
    /\ chunk_index = chunk_count(src)
    /\ LET start == tail_start(src, intra_chunk_offset)
       IN  IF start < Len(src)
           THEN LET sl == slice_from(src, start)
                    r == analyze_source_file_generic(
                             sl.s, Len(src) - start, start,
                             lines, multi_byte_chars, non_narrow_chars)
                IN  /\ lines' = r.lines
                    /\ multi_byte_chars' = r.multi_byte_chars
                    /\ non_narrow_chars' = r.non_narrow_chars
                    /\ examined' = examined \o r.examined
                    /\ pc' = IF ~sl.ok \/ r.panicked THEN "panic" ELSE "post"
           ELSE /\ pc' = "post"
                /\ UNCHANGED <<lines, multi_byte_chars, non_narrow_chars, examined>>
    /\ UNCHANGED <<text, src, padding, impl, chunk_index, intra_chunk_offset, file, call>>

\* mutant of pop_last_line: the trailing line start is kept
pop_last_line_never(l, len) == l

\* analyze_source_file after the dispatch: the line start it drops
pop_last_line(l, len) ==
    IF l # <<>> /\ l[Len(l)] = len THEN SubSeq(l, 1, Len(l) - 1) ELSE l

\* analyze_source_file returns and SourceFile::new builds the record
Finish ==
    /\ pc = "post"
    /\ IF lines # <<>> /\ ~(Len(src) >= lines[Len(lines)])
       THEN /\ pc' = "panic"
            /\ file' = file
       ELSE /\ pc' = "done"
            /\ file' = [present |-> TRUE,
                        src |-> Some(src),
                        start_pos |-> U32(0),
                        source_len |-> Len(src),
                        lines |-> pop_last_line(lines, Len(src)),
                        multibyte_chars |-> multi_byte_chars,
                        non_narrow_chars |-> non_narrow_chars]
    /\ impl' = "none"
    /\ chunk_index' = 0
    /\ intra_chunk_offset' = 0
    /\ lines' = <<>>
    /\ multi_byte_chars' = <<>>
    /\ non_narrow_chars' = <<>>
    /\ examined' = <<>>
    /\ UNCHANGED <<text, src, padding, call>>

NextScan == New \/ DispatchGeneric \/ Sse2Chunk \/ Sse2Tail \/ Finish

InitScan == InitWith(ScanTexts)

SpecScan == InitScan /\ [][NextScan]_vars

\* paddings that take a text of n bytes, n < 2^16, to 2^32 bytes exactly, to
\* 2^32 + n bytes, and to 2^47 + 2^32 - 1 + n bytes
HugePaddings(n) ==
    { IF n = 0 THEN [over |-> 1, hi |-> 0, lo |-> 0]
               ELSE [over |-> 0, hi |-> LIMB - 1, lo |-> LIMB - n],
      [over |-> 1, hi |-> 0, lo |-> 0],
      [over |-> LIMB \div 2, hi |-> LIMB - 1, lo |-> LIMB - 1] }

\* construction from the enumerated texts, alone and followed by enough bytes
\* to leave the range of u32; SourceFile::new returns before it reads a byte of
\* a text that long, so only the number of the bytes that follow is kept
InitNew ==
    /\ text \in LookupTexts
    /\ src = as_bytes(text)
    /\ padding \in {USIZE(0)} \cup HugePaddings(Len(src))
    /\ pc = "new"
    /\ impl = "none"
    /\ chunk_index = 0
    /\ intra_chunk_offset = 0
    /\ lines = <<>>
    /\ multi_byte_chars = <<>>
    /\ non_narrow_chars = <<>>
    /\ examined = <<>>
    /\ file = NoFile
    /\ call = NoCall

SpecNew == InitNew /\ [][NextScan]_vars

-----------------------------------------------------------------------------
(* file.rs: the lookups of a SourceFile *)

\* mutant of relative_position: the start position is added instead of subtracted
relative_position_added(f, pos) == u32_add(pos, f.start_pos)

\* SourceFile::absolute_position
absolute_position(f, pos) == u32_add(pos, f.start_pos)

\* SourceFile::relative_position
relative_position(f, pos) == u32_sub(pos, f.start_pos)

\* slice::partition_point(|x| x <= pos): binary search for the first entry > pos
RECURSIVE partition_point(_, _, _, _)
partition_point(l, pos, left, right) ==
    IF ~(left < right) THEN left
    ELSE LET mid == left + ((right - left) \div 2)
         IN  IF l[mid + 1] <= pos
             THEN partition_point(l, pos, mid + 1, right)
             ELSE partition_point(l, pos, left, mid)

\* mutant of lookup_line: no checked_sub, the partition point itself is returned
lookup_line_no_sub(f, pos) ==
    LET n == partition_point(f.lines, pos, 0, Len(f.lines))
    IN  IF n = 0 THEN None ELSE Some(n)

\* SourceFile::lookup_line
lookup_line(f, pos) ==
    LET n == partition_point(f.lines, pos, 0, Len(f.lines))
    IN  IF n = 0 THEN None ELSE Some(n - 1)

\* the for loop of bytepos_to_file_charpos from record i on: the extra bytes
\* counted, and whether the assertion in the loop failed
RECURSIVE extra_bytes_loop(_, _, _, _)
extra_bytes_loop(m, i, bpos, total) ==
    IF i > Len(m) THEN [panicked |-> FALSE, total |-> total]
    ELSE IF m[i].pos < bpos THEN
        IF ~(bpos >= m[i].pos + m[i].bytes)
        THEN [panicked |-> TRUE, total |-> total + (m[i].bytes - 1)]
        ELSE extra_bytes_loop(m, i + 1, bpos, total + (m[i].bytes - 1))
    ELSE [panicked |-> FALSE, total |-> total]

\* mutant of bytepos_to_file_charpos: every byte of a multi-byte character is
\* counted as extra
RECURSIVE all_bytes_loop(_, _, _, _)
all_bytes_loop(m, i, bpos, total) ==
    IF i > Len(m) THEN total
    ELSE IF m[i].pos < bpos THEN all_bytes_loop(m, i + 1, bpos, total + m[i].bytes)
    ELSE total

bytepos_to_file_charpos_all_bytes(f, bpos) ==
    LET t == all_bytes_loop(f.multibyte_chars, 1, bpos, 0)
    IN  IF ~(t <= bpos) THEN [panicked |-> TRUE, v |-> 0]
        ELSE [panicked |-> FALSE, v |-> bpos - t]

\* mutant of bytepos_to_file_charpos: a record at bpos itself is counted too
RECURSIVE upto_loop(_, _, _, _)
upto_loop(m, i, bpos, total) ==
    IF i > Len(m) THEN total
    ELSE IF m[i].pos <= bpos THEN upto_loop(m, i + 1, bpos, total + (m[i].bytes - 1))
    ELSE total

bytepos_to_file_charpos_upto(f, bpos) ==
    LET t == upto_loop(f.multibyte_chars, 1, bpos, 0)
    IN  IF ~(t <= bpos) THEN [panicked |-> TRUE, v |-> 0]
        ELSE [panicked |-> FALSE, v |-> bpos - t]

\* SourceFile::bytepos_to_file_charpos
bytepos_to_file_charpos(f, bpos) ==
    LET r == extra_bytes_loop(f.multibyte_chars, 1, bpos, 0)
    IN  IF r.panicked \/ ~(r.total <= bpos) THEN [panicked |-> TRUE, v |-> 0]
        ELSE [panicked |-> FALSE, v |-> bpos - r.total]

\* mutant of lookup_file_pos: the 0-based index is returned as the line number
lookup_file_pos_zero_based(f, pos) ==
    LET chpos == bytepos_to_file_charpos(f, pos)
        a == lookup_line(f, pos)
    IN  IF chpos.panicked THEN [panicked |-> TRUE, line |-> 0, col |-> 0]
        ELSE IF a = None THEN [panicked |-> FALSE, line |-> 0, col |-> chpos.v]
        ELSE LET linechpos == bytepos_to_file_charpos(f, f.lines[a[1] + 1])
             IN  IF linechpos.panicked \/ ~(chpos.v >= linechpos.v)
                 THEN [panicked |-> TRUE, line |-> 0, col |-> 0]
                 ELSE [panicked |-> FALSE, line |-> a[1], col |-> chpos.v - linechpos.v]

\* SourceFile::lookup_file_pos
lookup_file_pos(f, pos) ==
    LET chpos == bytepos_to_file_charpos(f, pos)
        a == lookup_line(f, pos)
    IN  IF chpos.panicked THEN [panicked |-> TRUE, line |-> 0, col |-> 0]
        ELSE IF a = None THEN [panicked |-> FALSE, line |-> 0, col |-> chpos.v]
        ELSE LET linebpos == f.lines[a[1] + 1]
                 linechpos == bytepos_to_file_charpos(f, linebpos)
             IN  IF linechpos.panicked \/ ~(chpos.v >= linechpos.v)
                 THEN [panicked |-> TRUE, line |-> 0, col |-> 0]
                 ELSE [panicked |-> FALSE, line |-> a[1] + 1,
                       col |-> chpos.v - linechpos.v]

\* u32 to usize
to_usize(v) == v.hi * LIMB + v.lo

\* slice::binary_search_by_key(&key, |x| x.pos()).unwrap_or_else(|x| x): the
\* index of the record at key, or the index where it would be inserted
RECURSIVE binary_search_by_key(_, _, _, _)
binary_search_by_key(nn, key, left, right) ==
    IF ~(left < right) THEN left
    ELSE LET mid == left + ((right - left) \div 2)
         IN  IF nn[mid + 1].pos < key THEN binary_search_by_key(nn, key, mid + 1, right)
             ELSE IF nn[mid + 1].pos > key THEN binary_search_by_key(nn, key, left, mid)
             ELSE mid

\* self.non_narrow_chars[from..to].iter().map(|x| x.width()).sum()
RECURSIVE width_sum(_, _, _)
width_sum(nn, from, to) ==
    IF ~(from < to) THEN 0
    ELSE NonNarrowChar_width(nn[from + 1]) + width_sum(nn, from + 1, to)

\* mutant of lookup_file_pos_with_col_display: the cell each non-narrow
\* character already occupies in the column is not taken off
lookup_file_pos_with_col_display_no_sub(f, abspos) ==
    LET pos == to_usize(relative_position(f, abspos).v)
        lc == lookup_file_pos(f, pos)
        nn == f.non_narrow_chars
        end_width_idx == binary_search_by_key(nn, pos, 0, Len(nn))
    IN  IF lc.panicked
        THEN [panicked |-> TRUE, line |-> 0, col |-> 0, col_display |-> 0]
        ELSE IF lc.line > 0
        THEN LET start_width_idx ==
                     binary_search_by_key(nn, f.lines[lc.line], 0, Len(nn))
             IN  [panicked |-> FALSE, line |-> lc.line, col |-> lc.col,
                  col_display |-> lc.col + width_sum(nn, start_width_idx, end_width_idx)]
        ELSE [panicked |-> FALSE, line |-> 0, col |-> lc.col,
              col_display |-> lc.col + width_sum(nn, 0, end_width_idx)]

\* SourceFile::lookup_file_pos_with_col_display
lookup_file_pos_with_col_display(f, abspos) ==
    LET pos == to_usize(relative_position(f, abspos).v)
        lc == lookup_file_pos(f, pos)
        nn == f.non_narrow_chars
        end_width_idx == binary_search_by_key(nn, pos, 0, Len(nn))
    IN  IF lc.panicked
        THEN [panicked |-> TRUE, line |-> 0, col |-> 0, col_display |-> 0]
        ELSE IF lc.line > 0
        THEN LET linebpos == f.lines[lc.line]
                 start_width_idx == binary_search_by_key(nn, linebpos, 0, Len(nn))
                 special_chars == end_width_idx - start_width_idx
                 non_narrow == width_sum(nn, start_width_idx, end_width_idx)
             IN  IF special_chars < 0 \/ lc.col - special_chars < 0
                 THEN [panicked |-> TRUE, line |-> 0, col |-> 0, col_display |-> 0]
                 ELSE [panicked |-> FALSE, line |-> lc.line, col |-> lc.col,
                       col_display |-> lc.col - special_chars + non_narrow]
        ELSE LET non_narrow == width_sum(nn, 0, end_width_idx)
             IN  IF lc.col - end_width_idx < 0
                 THEN [panicked |-> TRUE, line |-> 0, col |-> 0, col_display |-> 0]
                 ELSE [panicked |-> FALSE, line |-> 0, col |-> lc.col,
                       col_display |-> lc.col - end_width_idx + non_narrow]

\* str::find('\n') on the slice s[from..]: the offset of the first newline
\* byte in the slice, as Some(e), or None
RECURSIVE find_newline(_, _, _)
find_newline(s, from, e) ==
    IF from + e >= Len(s) THEN None
    ELSE IF s[from + e + 1] = 10 THEN Some(e)
    ELSE find_newline(s, from, e + 1)

\* &src[from..to]; indexing a str panics when the range is reversed, runs past
\* the end or does not fall on character boundaries
str_slice(s, from, to) ==
    IF from <= to /\ to <= Len(s) /\ is_char_boundary(s, from) /\ is_char_boundary(s, to)
    THEN [panicked |-> FALSE, ret |-> Some(SubSeq(s, from + 1, to))]
    ELSE [panicked |-> TRUE, ret |-> None]

\* mutant of get_line: the slice runs through the newline
get_line_through_newline(f, line_number) ==
    IF f.src = None THEN [panicked |-> FALSE, ret |-> None]
    ELSE IF ~(line_number < Len(f.lines)) THEN [panicked |-> FALSE, ret |-> None]
    ELSE LET s == f.src[1]
             start == f.lines[line_number + 1]
             e == find_newline(s, start, 0)
         IN  IF e # None THEN str_slice(s, start, start + e[1] + 1)
             ELSE str_slice(s, start, Len(s))

\* SourceFile::get_line
get_line(f, line_number) ==
    IF f.src = None THEN [panicked |-> FALSE, ret |-> None]
    ELSE IF ~(line_number < Len(f.lines)) THEN [panicked |-> FALSE, ret |-> None]
    ELSE LET s == f.src[1]
             start == f.lines[line_number + 1]
             e == find_newline(s, start, 0)
         IN  IF ~(start <= Len(s) /\ is_char_boundary(s, start))
             THEN [panicked |-> TRUE, ret |-> None]
             ELSE IF e # None THEN str_slice(s, start, start + e[1])
             ELSE str_slice(s, start, Len(s))

\* SourceFile::get_lines
get_lines(f, range_start, range_end) ==
    IF f.src = None THEN [panicked |-> FALSE, ret |-> None]
    ELSE IF ~(range_start < Len(f.lines)) THEN [panicked |-> FALSE, ret |-> None]
    ELSE IF ~(range_end < Len(f.lines)) THEN [panicked |-> FALSE, ret |-> None]
    ELSE LET s == f.src[1]
             start == f.lines[range_start + 1]
             end == f.lines[range_end + 1]
             e == find_newline(s, end, 0)
         IN  IF ~(end <= Len(s) /\ is_char_boundary(s, end))
             THEN [panicked |-> TRUE, ret |-> None]
             ELSE IF e # None THEN str_slice(s, start, end + e[1])
             ELSE str_slice(s, start, Len(s))

\* the line indices a caller probes: every index of the table and two past it
LineNumbers(f) == 0..(Len(f.lines) + 1)

\* the relative byte positions a caller probes: every position of the text, its
\* end, and one position past the end
Positions(f) == 0..(f.source_len + 1)

LookupLine ==
    /\ pc = "done"
    /\ \E pos \in Positions(file) :
         call' = [op |-> "lookup_line", arg |-> pos, ret |-> lookup_line(file, pos)]
    /\ UNCHANGED <<text, src, padding, pc, scanvars, file>>

BytePosToFileCharPos ==
    /\ pc = "done"
    /\ \E pos \in Positions(file) :
         call' = [op |-> "bytepos_to_file_charpos", arg |-> pos,
                  ret |-> bytepos_to_file_charpos(file, pos)]
    /\ UNCHANGED <<text, src, padding, pc, scanvars, file>>

LookupFilePos ==
    /\ pc = "done"
    /\ \E pos \in Positions(file) :
         call' = [op |-> "lookup_file_pos", arg |-> pos,
                  ret |-> lookup_file_pos(file, pos)]
    /\ UNCHANGED <<text, src, padding, pc, scanvars, file>>

\* the file is at start position 0 here, so absolute and relative positions
\* coincide
LookupFilePosWithColDisplay ==
    /\ pc = "done"
    /\ \E pos \in Positions(file) :
         call' = [op |-> "lookup_file_pos_with_col_display", arg |-> pos,
                  ret |-> lookup_file_pos_with_col_display(file, U32(pos))]
    /\ UNCHANGED <<text, src, padding, pc, scanvars, file>>

GetLine ==
    /\ pc = "done"
    /\ \E line_number \in LineNumbers(file) :
         call' = [op |-> "get_line", arg |-> line_number,
                  ret |-> get_line(file, line_number)]
    /\ UNCHANGED <<text, src, padding, pc, scanvars, file>>

GetLines ==
    /\ pc = "done"
    /\ \E range_start \in LineNumbers(file), range_end \in LineNumbers(file) :
         call' = [op |-> "get_lines", arg |-> <<range_start, range_end>>,
                  ret |-> get_lines(file, range_start, range_end)]
    /\ UNCHANGED <<text, src, padding, pc, scanvars, file>>

\* the original text is dropped from the record: present -> absent, once
Evict ==
    /\ pc = "done"
    /\ file.src # None
    /\ file' = [file EXCEPT !.src = None]
    /\ call' = NoCall
    /\ UNCHANGED <<text, src, padding, pc, scanvars>>

Next ==
    \/ NextScan
    \/ LookupLine
    \/ BytePosToFileCharPos
    \/ LookupFilePos
    \/ LookupFilePosWithColDisplay
    \/ GetLine
    \/ GetLines
    \/ Evict

Init == InitWith(LookupTexts)

Spec == Init /\ [][Next]_vars

-----------------------------------------------------------------------------
(* A file placed in the coordinate space of the source map *)

LimbValues == {0, 1, LIMB - 1}

\* 32-bit positions around the carries of the two limbs
BytePositions == {[hi |-> h, lo |-> l] : h, l \in LimbValues}

\* the source map assigns the file its absolute start position
Place ==
    /\ pc = "done"
    /\ \E sp \in BytePositions : file' = [file EXCEPT !.start_pos = sp]
    /\ call' = NoCall
    /\ UNCHANGED <<text, src, padding, pc, scanvars>>

\* a caller converts an absolute position to a relative one and back
RoundTrip ==
    /\ pc = "done"
    /\ \E x \in BytePositions :
         LET rel == relative_position(file, x)
         IN  call' = [op |-> "round_trip", arg |-> x, rel |-> rel,
                      abs |-> absolute_position(file, rel.v)]
    /\ UNCHANGED <<text, src, padding, pc, scanvars, file>>

NextPlaced == NextScan \/ Place \/ RoundTrip

InitPlaced == InitWith(Fixtures)

SpecPlaced == InitPlaced /\ [][NextPlaced]_vars

-----------------------------------------------------------------------------
(* What the text itself says, read off its scalar values (not its bytes) *)

Range(q) == {q[i] : i \in DOMAIN q}

RECURSIVE starts_from(_, _, _)
starts_from(t, k, p) ==
    IF k > Len(t) THEN <<p>>
    ELSE <<p>> \o starts_from(t, k + 1, p + Len(encode_utf8(t[k])))

\* CharStarts(t)[k] is the byte offset of scalar value k; the last entry is the
\* byte length of the text
CharStarts(t) == starts_from(t, 1, 0)

StrictlyIncreasing(q) == \A i, j \in DOMAIN q : i < j => q[i] < q[j]

IncreasingPos(q) == \A i, j \in DOMAIN q : i < j => q[i].pos < q[j].pos

IsControl(c) == c < 32 \/ c = 127

\* the non-narrow record the policy prescribes for scalar value c at byte p
PolicyRecords(c, p) ==
    IF c = 10 THEN {}
    ELSE IF c = 9 THEN {[kind |-> "Tab", pos |-> p]}
    ELSE IF IsControl(c) THEN {[kind |-> "ZeroWidth", pos |-> p]}
    ELSE IF c < 128 THEN {}
    ELSE IF UnicodeWidthChar_width(c) \in {-1, 0} THEN {[kind |-> "ZeroWidth", pos |-> p]}
    ELSE IF UnicodeWidthChar_width(c) = 2 THEN {[kind |-> "Wide", pos |-> p]}
    ELSE {}

ScanDone == pc = "post"

-----------------------------------------------------------------------------
(* Claims about the scanner, checked under SpecScan *)

\* C1: when the chunked SSE2 path has finished a text, the line starts, the
\* multi-byte records and the non-narrow records it leaves are exactly those of
\* one call of the generic algorithm over the whole text with output offset 0,
\* and the chunked path never aborts.
C1_Sse2EqualsGeneric ==
    impl = "sse2" =>
        /\ pc # "panic"
        /\ ScanDone =>
             LET g == analyze_source_file_generic(src, Len(src), 0, <<0>>, <<>>, <<>>)
             IN  /\ lines = g.lines
                 /\ multi_byte_chars = g.multi_byte_chars
                 /\ non_narrow_chars = g.non_narrow_chars

\* the chunked path has finished a text with a batch-appended chunk, a chunk
\* given to the generic algorithm, a multi-byte character and a tail
C1_Witness ==
    /\ ScanDone
    /\ impl = "sse2"
    /\ \E ci \in 0..(chunk_count(src) - 1) : chunk_kind(src, ci) = "newlines"
    /\ \E ci \in 0..(chunk_count(src) - 1) : chunk_kind(src, ci) = "slow"
    /\ multi_byte_chars # <<>>
    /\ Len(lines) >= 2
    /\ Len(src) % CHUNK_SIZE # 0

\* C2: the line-start table returned by analyze_source_file is strictly
\* increasing and holds no entry equal to the byte length of the text; a line
\* start recorded after a final newline is removed (the table then has one entry
\* per newline, otherwise one more); the empty text yields three empty sequences.
C2_LineTable ==
    pc = "done" =>
        LET newlines == Cardinality({k \in DOMAIN text : text[k] = 10})
        IN  /\ StrictlyIncreasing(file.lines)
            /\ \A i \in DOMAIN file.lines : file.lines[i] # Len(src)
            /\ Len(file.lines) =
                 IF text = <<>> \/ text[Len(text)] = 10 THEN newlines ELSE newlines + 1
            /\ text = <<>> =>
                 /\ file.lines = <<>>
                 /\ file.multibyte_chars = <<>>
                 /\ file.non_narrow_chars = <<>>

\* a text ending in a newline has been analysed and lines remain in the table
C2_Witness ==
    /\ pc = "done"
    /\ text # <<>>
    /\ text[Len(text)] = 10
    /\ Len(file.lines) >= 2

\* C3 as stated: the line-start table of every constructed source file has a
\* first entry and it is 0.
C3_FirstLineAlways ==
    pc = "done" => file.lines # <<>> /\ file.lines[1] = 0

\* C3 amended: the line-start table of every constructed source file of a
\* non-empty text has first entry 0, and that of the empty text is empty.
C3_FirstLineNonEmpty ==
    pc = "done" =>
        IF text = <<>> THEN file.lines = <<>>
        ELSE file.lines # <<>> /\ file.lines[1] = 0

\* a non-empty text with several lines has been constructed
C3_Witness ==
    /\ pc = "done"
    /\ text # <<>>
    /\ Len(file.lines) >= 2

\* C4: when the scanner has finished, the line starts are 0 and p+1 for each
\* newline at p; the non-narrow records are a Tab for each tab, a ZeroWidth for
\* each other byte below 32 and for DEL, a ZeroWidth or Wide at the first byte of
\* each non-ASCII character of width 0 or 2, and nothing else (none for
\* printable ASCII); both sequences ascend and stay within the text length.
C4_Policy ==
    /\ pc # "panic"
    /\ ScanDone =>
        LET st == CharStarts(text)
        IN  /\ lines # <<>> /\ lines[1] = 0
            /\ StrictlyIncreasing(lines)
            /\ Range(lines) = {0} \cup {st[k] + 1 : k \in {j \in DOMAIN text : text[j] = 10}}
            /\ \A p \in 0..(Len(src) - 1) : (src[p + 1] = 10) <=> (p + 1 \in Range(Tail(lines)))
            /\ IncreasingPos(non_narrow_chars)
            /\ Range(non_narrow_chars) =
                 UNION {PolicyRecords(text[k], st[k]) : k \in DOMAIN text}
            /\ \A p \in 0..(Len(src) - 1) :
                 (src[p + 1] >= 32 /\ src[p + 1] <= 126) =>
                     \A i \in DOMAIN non_narrow_chars : non_narrow_chars[i].pos # p
            /\ \A i \in DOMAIN lines : lines[i] <= Len(src)
            /\ \A i \in DOMAIN non_narrow_chars : non_narrow_chars[i].pos <= Len(src)

\* the chunked path has finished a text holding a newline and a tab
C4_Witness ==
    /\ ScanDone
    /\ impl = "sse2"
    /\ chunk_count(src) >= 1
    /\ Len(lines) >= 2
    /\ \E i \in DOMAIN non_narrow_chars : non_narrow_chars[i].kind = "Tab"

\* C5: when the scanner has finished, the multi-byte records are exactly one
\* (first byte position, length) per scalar value encoded in 2 to 4 bytes, in
\* ascending order with disjoint byte spans, none at a continuation byte, also
\* when a character straddles a chunk boundary or the start of the tail.
C5_MultiByte ==
    /\ pc # "panic"
    /\ ScanDone =>
        LET st == CharStarts(text)
            m == multi_byte_chars
        IN  /\ Range(m) = {[pos |-> st[k], bytes |-> Len(encode_utf8(text[k]))] :
                              k \in {j \in DOMAIN text : Len(encode_utf8(text[j])) >= 2}}
            /\ Len(m) = Cardinality({j \in DOMAIN text : Len(encode_utf8(text[j])) >= 2})
            /\ \A i, j \in DOMAIN m : i < j => m[i].pos + m[i].bytes <= m[j].pos
            /\ \A i \in DOMAIN m :
                 /\ m[i].bytes \in 2..4
                 /\ m[i].pos + m[i].bytes <= Len(src)
                 /\ ~(src[m[i].pos + 1] >= 128 /\ src[m[i].pos + 1] < 192)

\* the chunked path has finished a text in which a 4-byte character straddles
\* the boundary between two full chunks
C5_Witness ==
    /\ ScanDone
    /\ impl = "sse2"
    /\ chunk_count(src) >= 2
    /\ \E i \in DOMAIN multi_byte_chars :
         /\ multi_byte_chars[i].bytes = 4
         /\ multi_byte_chars[i].pos < CHUNK_SIZE
         /\ multi_byte_chars[i].pos + multi_byte_chars[i].bytes > CHUNK_SIZE

\* a multi-byte character straddles the boundary between the last full chunk
\* and the tail
C5_TailStraddle ==
    /\ ScanDone
    /\ impl = "sse2"
    /\ chunk_count(src) = 1
    /\ \E i \in DOMAIN multi_byte_chars :
         /\ multi_byte_chars[i].pos < CHUNK_SIZE
         /\ multi_byte_chars[i].pos + multi_byte_chars[i].bytes > CHUNK_SIZE
    /\ Len(src) > CHUNK_SIZE + 3

-----------------------------------------------------------------------------
(* Claims about the lookups, checked under Spec and SpecPlaced *)

OnCharBoundary(p) == p \in Range(CharStarts(text))

\* the sum of (bytes - 1) over a set of multi-byte records
RECURSIVE SumExtra(_)
SumExtra(S) ==
    IF S = {} THEN 0
    ELSE LET r == CHOOSE x \in S : TRUE IN (r.bytes - 1) + SumExtra(S \ {r})

\* C6: for a byte position on a character boundary within the text,
\* bytepos_to_file_charpos returns the position minus the sum of (bytes - 1) over
\* the multi-byte records before it, which is the number of scalar values that
\* start before it.
C6_CharPos ==
    (call.op = "bytepos_to_file_charpos" /\ call.arg <= file.source_len
        /\ OnCharBoundary(call.arg)) =>
        LET st == CharStarts(text)
        IN  /\ ~call.ret.panicked
            /\ call.ret.v = call.arg
                 - SumExtra({r \in Range(file.multibyte_chars) : r.pos < call.arg})
            /\ call.ret.v = Cardinality({k \in DOMAIN text : st[k] < call.arg})

\* a position after two multi-byte characters has been converted
C6_Witness ==
    /\ call.op = "bytepos_to_file_charpos"
    /\ OnCharBoundary(call.arg)
    /\ call.arg < file.source_len
    /\ Cardinality({r \in Range(file.multibyte_chars) : r.pos < call.arg}) >= 2
    /\ call.ret.v < call.arg

\* C7 as stated: for every byte position within the text the conversion returns
\* a value, never negative, and not smaller than the value for any smaller
\* position.
C7_MonotoneEverywhere ==
    (call.op = "bytepos_to_file_charpos" /\ call.arg <= file.source_len) =>
        /\ ~call.ret.panicked
        /\ call.ret.v >= 0
        /\ \A q \in 0..call.arg :
             LET r == bytepos_to_file_charpos(file, q)
             IN  ~r.panicked /\ r.v <= call.ret.v

\* C7 amended: for every byte position within the text that lies on a character
\* boundary the conversion returns a value, never negative, and not smaller
\* than the value for any smaller position on a character boundary.
C7_MonotoneOnBoundaries ==
    (call.op = "bytepos_to_file_charpos" /\ call.arg <= file.source_len
        /\ OnCharBoundary(call.arg)) =>
        /\ ~call.ret.panicked
        /\ call.ret.v >= 0
        /\ \A q \in 0..call.arg :
             OnCharBoundary(q) =>
                 LET r == bytepos_to_file_charpos(file, q)
                 IN  ~r.panicked /\ r.v <= call.ret.v

\* the end of a text holding a multi-byte character has been converted
C7_Witness ==
    /\ call.op = "bytepos_to_file_charpos"
    /\ call.arg = file.source_len
    /\ file.multibyte_chars # <<>>
    /\ ~call.ret.panicked
    /\ call.ret.v > 0

\* C8: for an absolute position x >= start_pos, relative_position subtracts
\* without leaving the unsigned 32-bit range, absolute_position adds without
\* leaving it, and absolute_position(relative_position(x)) = x.
C8_RoundTrip ==
    (call.op = "round_trip" /\ u32_le(file.start_pos, call.arg)) =>
        /\ ~call.rel.overflow
        /\ ~call.abs.overflow
        /\ call.abs.v = call.arg

\* a round trip whose subtraction borrows from the high limb and whose addition
\* carries into it
C8_Witness ==
    /\ call.op = "round_trip"
    /\ u32_le(file.start_pos, call.arg)
    /\ file.start_pos.lo > call.arg.lo
    /\ file.start_pos.hi > 0
    /\ call.arg.hi = LIMB - 1

\* C9: lookup_line(pos) returns the greatest index i with lines[i] <= pos, and
\* None exactly when there is no such index.
C9_LookupLine ==
    call.op = "lookup_line" =>
        LET below == {i \in 0..(Len(file.lines) - 1) : file.lines[i + 1] <= call.arg}
        IN  IF below = {} THEN call.ret = None
            ELSE /\ call.ret # None
                 /\ call.ret[1] \in below
                 /\ \A i \in below : i <= call.ret[1]

\* a position strictly inside a line that is neither the first nor the last
C9_Witness ==
    /\ call.op = "lookup_line"
    /\ call.ret # None
    /\ call.ret[1] >= 1
    /\ call.ret[1] + 2 <= Len(file.lines)
    /\ file.lines[call.ret[1] + 1] < call.arg

\* no line is found in the empty file
C9_NoneReached ==
    /\ call.op = "lookup_line"
    /\ call.ret = None

\* C10: line/column lookup at a recorded line start lines[i] returns the 1-based
\* line number i + 1 and column 0.
C10_LineStartColumn ==
    call.op = "lookup_file_pos" =>
        \A i \in 0..(Len(file.lines) - 1) :
            file.lines[i + 1] = call.arg =>
                call.ret = [panicked |-> FALSE, line |-> i + 1, col |-> 0]

\* the start of a later line, after a multi-byte character, has been looked up
C10_Witness ==
    /\ call.op = "lookup_file_pos"
    /\ \E i \in 1..(Len(file.lines) - 1) : file.lines[i + 1] = call.arg
    /\ \E j \in DOMAIN file.multibyte_chars : file.multibyte_chars[j].pos < call.arg

\* display width of a non-narrow record of each kind
DisplayWidth(kind) == IF kind = "ZeroWidth" THEN 0 ELSE IF kind = "Wide" THEN 2 ELSE 4

RECURSIVE SumWidths(_)
SumWidths(S) ==
    IF S = {} THEN 0
    ELSE LET r == CHOOSE x \in S : TRUE IN DisplayWidth(r.kind) + SumWidths(S \ {r})

\* the non-narrow records of file f with position in [from, to)
NonNarrowIn(f, from, to) ==
    {r \in Range(f.non_narrow_chars) : from <= r.pos /\ r.pos < to}

\* C11: for a character-boundary position pos on a line starting at line_start,
\* the display column is the character column minus the number of non-narrow
\* records with position in [line_start, pos) plus the sum of their display
\* widths; a record exactly at pos is not counted, and after exactly one tab the
\* display column is column - 1 + 4.
C11_DisplayColumn ==
    (call.op = "lookup_file_pos_with_col_display" /\ call.arg <= file.source_len
        /\ OnCharBoundary(call.arg) /\ file.lines # <<>>) =>
        LET a == CHOOSE i \in DOMAIN file.lines :
                     /\ file.lines[i] <= call.arg
                     /\ \A j \in DOMAIN file.lines : file.lines[j] <= call.arg => j <= i
            in == NonNarrowIn(file, file.lines[a], call.arg)
        IN  /\ ~call.ret.panicked
            /\ call.ret.line = a
            /\ call.ret.col_display =
                 call.ret.col - Cardinality(in) + SumWidths(in)
            /\ (Cardinality(in) = 1 /\ \A r \in in : r.kind = "Tab") =>
                 call.ret.col_display = call.ret.col - 1 + 4

\* a position after one tab on a later line, with a non-narrow record exactly
\* at the position, has been looked up
C11_Witness ==
    /\ call.op = "lookup_file_pos_with_col_display"
    /\ OnCharBoundary(call.arg)
    /\ ~call.ret.panicked
    /\ call.ret.line >= 2
    /\ \E r \in Range(file.non_narrow_chars) : r.pos = call.arg
    /\ LET in == NonNarrowIn(file, file.lines[call.ret.line], call.arg)
       IN  /\ Cardinality(in) = 1
           /\ \A r \in in : r.kind = "Tab"
           /\ call.ret.col_display = call.ret.col + 3

\* the longest newline-free run of bytes of s that starts at offset start
LineBytes(s, start) ==
    LET stop == CHOOSE k \in start..Len(s) :
                    /\ \A i \in (start + 1)..k : s[i] # 10
                    /\ (k = Len(s) \/ s[k + 1] = 10)
    IN  SubSeq(s, start + 1, stop)

\* C12: get_line(n) returns None when the text is absent or n is not an index
\* of the line table; otherwise it returns the text from lines[n] up to but not
\* including the next newline, or to the end of the text when there is none; a
\* returned line never contains a newline.
C12_GetLine ==
    call.op = "get_line" =>
        /\ ~call.ret.panicked
        /\ (file.src = None \/ ~(call.arg < Len(file.lines))) => call.ret.ret = None
        /\ (file.src # None /\ call.arg < Len(file.lines)) =>
             /\ call.ret.ret = Some(LineBytes(as_bytes(text), file.lines[call.arg + 1]))
             /\ \A i \in DOMAIN call.ret.ret[1] : call.ret.ret[1][i] # 10

\* a line that is ended by a newline and is not the first has been returned
C12_Witness ==
    /\ call.op = "get_line"
    /\ call.ret.ret # None
    /\ call.ret.ret[1] # <<>>
    /\ call.arg >= 1
    /\ call.arg + 1 < Len(file.lines)

\* get_line answered None for a valid index because the text is absent
C12_AbsentReached ==
    /\ call.op = "get_line"
    /\ file.src = None
    /\ call.arg < Len(file.lines)
    /\ call.ret.ret = None

\* the bytes of s from offset start through the newline that ends the line
\* starting at offset end, or to the end of s when that line has no newline
LinesBytesWithTerminator(s, start, end) ==
    LET body == LineBytes(s, end)
        stop == end + Len(body)
    IN  IF stop < Len(s) THEN SubSeq(s, start + 1, stop + 1)
        ELSE SubSeq(s, start + 1, Len(s))

\* a get_lines call with the text present and a range a..=b of valid indices,
\* a <= b
GetLinesInDomain ==
    /\ call.op = "get_lines"
    /\ file.src # None
    /\ call.arg[1] <= call.arg[2]
    /\ call.arg[2] < Len(file.lines)

\* C13: with the text present and a..=b a range of valid line indices,
\* get_lines returns the text from lines[a] that includes the newline
\* terminating line b when that line has one, and runs to the end of the text
\* otherwise.
C13_IncludesTerminator ==
    GetLinesInDomain =>
        call.ret.ret = Some(LinesBytesWithTerminator(as_bytes(text),
                                file.lines[call.arg[1] + 1], file.lines[call.arg[2] + 1]))

\* what get_lines returns instead: the text from lines[a] up to, and not
\* including, the newline that ends line b
C13_StopsBeforeTerminator ==
    GetLinesInDomain =>
        /\ ~call.ret.panicked
        /\ LET s == as_bytes(text)
               end == file.lines[call.arg[2] + 1]
           IN  call.ret.ret = Some(SubSeq(s, file.lines[call.arg[1] + 1] + 1,
                                          end + Len(LineBytes(s, end))))

\* a range whose second line ends in a newline has been asked for
C13_TerminatedReached ==
    /\ GetLinesInDomain
    /\ call.arg[1] < call.arg[2]
    /\ call.arg[2] + 1 < Len(file.lines)

\* C14: no lookup aborts on a caller input outside the valid domain: for any
\* position, any line index and any range of line indices, a range whose first
\* index is greater than its second included, the lookup returns an ordinary or
\* absent result; the only aborts are the internal assertions, which need a
\* position strictly inside a multi-byte character.
C14_NoAbort ==
    /\ call.op \in {"get_line", "get_lines"} => ~call.ret.panicked
    /\ call.op \in {"bytepos_to_file_charpos", "lookup_file_pos",
                    "lookup_file_pos_with_col_display"} =>
           (call.ret.panicked => ~OnCharBoundary(call.arg))

\* every get_lines call on a reversed range of valid indices aborts
C14_ReversedRangeAborts ==
    (/\ call.op = "get_lines"
     /\ file.src # None
     /\ call.arg[1] > call.arg[2]
     /\ call.arg[1] < Len(file.lines)) => call.ret.panicked

\* a reversed range of valid indices has been asked for
C14_ReversedReached ==
    /\ call.op = "get_lines"
    /\ file.src # None
    /\ call.arg[1] > call.arg[2]
    /\ call.arg[1] < Len(file.lines)

\* the byte length of the String, Len(src) < 2^16 bytes and the padding,
\* is below 2^32
FitsU32 ==
    /\ padding.over = 0
    /\ (padding.hi = LIMB - 1 => padding.lo + Len(src) < LIMB)

\* C15: SourceFile::new returns the overflow error exactly when the byte length
\* of the text does not fit an unsigned 32-bit position, and then there is no
\* record; otherwise the record has source_len equal to the byte length,
\* start_pos 0, the text present, and the three sequences the scanner gives
\* for the text.
C15_New ==
    /\ pc # "new" => ((pc = "overflow") <=> ~FitsU32)
    /\ pc = "overflow" => file = NoFile
    /\ pc = "done" =>
         LET g == analyze_source_file_generic(as_bytes(text), Len(as_bytes(text)), 0,
                                              <<0>>, <<>>, <<>>)
             n == Len(g.lines)
         IN  /\ file.present
             /\ padding = USIZE(0)
             /\ file.source_len = Len(as_bytes(text))
             /\ file.start_pos = U32(0)
             /\ file.src = Some(as_bytes(text))
             /\ file.lines = IF g.lines[n] = Len(as_bytes(text))
                             THEN SubSeq(g.lines, 1, n - 1) ELSE g.lines
             /\ file.multibyte_chars = g.multi_byte_chars
             /\ file.non_narrow_chars = g.non_narrow_chars

\* the overflow error has been returned for a non-empty text of 2^32 bytes
\* exactly
C15_Witness ==
    /\ pc = "overflow"
    /\ file = NoFile
    /\ Len(src) > 0
    /\ padding = [over |-> 0, hi |-> LIMB - 1, lo |-> LIMB - Len(src)]

\* a record has been built by the chunked scanner for a text with several
\* lines and a multi-byte character
C15_RecordReached ==
    /\ pc = "done"
    /\ file.present
    /\ Len(file.lines) >= 2
    /\ file.multibyte_chars # <<>>
    /\ file.source_len > CHUNK_SIZE

\* the offsets at which the characters of t start, in order
CharOffsets(t) == SubSeq(CharStarts(t), 1, Len(t))

\* the chunked loop is about to run the iteration for chunk_index
AtChunk == pc = "dispatch" /\ impl = "sse2" /\ chunk_index < chunk_count(src)

\* the chunked loop has ended and the tail is about to be scanned
AtTail == pc = "dispatch" /\ impl = "sse2" /\ chunk_index = chunk_count(src)

\* C16: in the chunked path the carried skip count intra_chunk_offset is always
\* between 0 and 3; it is 0 whenever the chunk is pure ASCII, so the assertion
\* of the fast branch never fails; each call of the generic algorithm is given
\* a scan length no longer than the buffer it is handed, which starts on a
\* character boundary; and the chunk iterations with the tail call examine
\* every character of the text exactly once, in order.
C16_ChunkCarry ==
    impl = "sse2" =>
        /\ pc # "panic"
        /\ intra_chunk_offset \in 0..3
        /\ (AtChunk /\ multibyte_mask(src, chunk_index) = {}) => intra_chunk_offset = 0
        /\ (AtChunk /\ chunk_kind(src, chunk_index) = "slow") =>
             LET start == chunk_index * CHUNK_SIZE + intra_chunk_offset
             IN  /\ OnCharBoundary(start)
                 /\ CHUNK_SIZE - intra_chunk_offset <= Len(src) - start
        /\ AtTail =>
             LET start == chunk_count(src) * CHUNK_SIZE + intra_chunk_offset
             IN  /\ start <= Len(src)
                 /\ OnCharBoundary(start)
        /\ pc = "dispatch" =>
             examined = SubSeq(CharOffsets(text), 1, Len(examined))
        /\ ScanDone => examined = CharOffsets(text)

\* a chunk is about to be scanned after a character of four bytes left three
\* of its bytes in it
C16_Witness ==
    /\ AtChunk
    /\ intra_chunk_offset = 3
    /\ chunk_kind(src, chunk_index) = "slow"
    /\ examined # <<>>

\* the chunked path has examined a text of two chunks and a tail, with a
\* character across a chunk boundary
C16_CoveredReached ==
    /\ ScanDone
    /\ impl = "sse2"
    /\ chunk_count(src) >= 2
    /\ Len(src) > chunk_count(src) * CHUNK_SIZE
    /\ examined = CharOffsets(text)
    /\ \E b \in 1..chunk_count(src) : (b * CHUNK_SIZE) \notin Range(examined)

=============================================================================
